---- MODULE Spec2Model ----
(***************************************************************************)
(* Calendar-feed request handling of appointy-calendar-sync.               *)
(*                                                                         *)
(* The repository holds two deployments of the same feed:                  *)
(*   "server"  the Express + Puppeteer server  (src/src/scraper.js:380ff)  *)
(*   "vercel"  the serverless FlareSolverr handler (src/README.md:113ff)   *)
(* A behaviour of this module is one process of one deployment: the        *)
(* module-level cache (cachedICS, cacheTime), the configuration the        *)
(* handler loads, the wall clock, and the requests in flight.              *)
(* The pure parts (time normalizers, appointment builders, calendar        *)
(* encoders, date scan, health report) are operators, exercised by         *)
(* specifications of their own over the variable calc.                     *)
(***************************************************************************)
EXTENDS Integers, Sequences, FiniteSets, TLC

VARIABLES variant, config, now, cachedICS, cacheTime, pc, req, out, calc

vars == <<variant, config, now, cachedICS, cacheTime, pc, req, out, calc>>

(* ------------------------------ bounds -------------------------------- *)

\* number of request slots that may be in flight at once
NumReqs == 2
\* longest token, in characters
MaxTokLen == 2
\* number of clock ticks a behaviour may take
MaxTicks == 3
\* largest abstract page identity the page fetcher may return
MaxHtml == 1

(* ----------------------------- constants ------------------------------ *)

CACHE_TTL == 15 * 60 * 1000

MAX_DURATION == 120 * 1000

\* wall-clock granularity of the model: half a TTL, in milliseconds
TickStep == CACHE_TTL \div 2

\* Date.now() is a large positive number of milliseconds, never 0
StartTime == 60 * 60 * 1000

Variants == {"server", "vercel"}

Reqs == 1..NumReqs

TokChars == {"a", "b"}

\* every string over TokChars of at most MaxTokLen characters; <<>> is ''
Tokens == UNION {[1..n -> TokChars] : n \in 0..MaxTokLen}

\* values of the ?refresh= query parameter; "absent" is undefined
RefreshValues == {"absent", "true", "TRUE", "1", "yes"}

\* the configured tokens tried: '' (or undefined) and one token of each length
ConfigTokens == {[i \in 1..n |-> "a"] : n \in 0..MaxTokLen}

Htmls == 0..MaxHtml

NoDoc == [kind |-> "null", events |-> 0]

\* a handler invocation: the request's token and refresh parameter, the
\* handler's locals (now, html, whether currentUrl is the bookings page) and
\* what it has done so far (comparator used and the characters it visited,
\* fetch calls issued, whether a fetch call came back with an error or was
\* rejected, whether an exception reached the catch branch, the order of its
\* steps). phase tells the handler's first step from its resumption.
\* valid records whether the token was the configured one when the request
\* arrived. refresh is the parameter as the handler has read it: "-" while
\* the token gate has not let the request through, and again once the cache
\* check is over, after which the handler never looks at it. found is the
\* number of appointments the scrape returned, -1 while it has returned none.
\* miss is why the cache check let the request through to the scrape: the
\* cache was "empty", its document "stale", or the refresh "forced".
IdleReq == [token |-> <<>>, refresh |-> "absent", valid |-> FALSE, phase |-> "none",
            now |-> 0, cmp |-> "none", steps |-> 0, calls |-> 0, failed |-> FALSE,
            threw |-> FALSE, html |-> 0, onBookings |-> FALSE, trace |-> <<>>,
            found |-> -1, miss |-> "none"]

\* the event of the last handler step: a response sent (kind "response") or
\* the handler suspended on its scrape (kind "await"), with the invocation
\* it belongs to and the cache slot as that step found it
NoResp == [kind |-> "none", token |-> <<>>, refresh |-> "absent", valid |-> FALSE,
           phase |-> "none", status |-> 0, xcache |-> "none", body |-> NoDoc,
           msg |-> "", cmp |-> "none", steps |-> 0, calls |-> 0, failed |-> FALSE,
           threw |-> FALSE, trace |-> <<>>, before |-> [doc |-> NoDoc, time |-> 0],
           at |-> 0, found |-> -1, miss |-> "none"]

\* the configurations loadConfig() / getConfig() can return: a field that is
\* undefined or '' is falsy; calendarToken <<>> stands for both
\* credentials is appointyEmail && appointyPassword
Configs == [calendarToken : ConfigTokens, flaresolverrUrl : BOOLEAN,
            credentials : BOOLEAN]

(* ------------------------- token comparison --------------------------- *)

\* index of the first position where a and b differ, Len + 1 when none does
FirstDiff(a, b) ==
    LET n == IF Len(a) < Len(b) THEN Len(a) ELSE Len(b)
        D == {i \in 1..n : a[i] # b[i]}
    IN IF D = {} THEN n + 1 ELSE CHOOSE i \in D : \A j \in D : i <= j

\* JavaScript's a !== b on strings: unequal lengths decide at once, equal
\* lengths are compared character by character up to the first difference
StrictNotEquals(a, b) ==
    IF Len(a) # Len(b)
    THEN [ne |-> TRUE, steps |-> 0]
    ELSE LET d == FirstDiff(a, b)
         IN [ne |-> d <= Len(a), steps |-> IF d <= Len(a) THEN d ELSE Len(a)]

\* crypto.timingSafeEqual on two buffers of the same length: every byte is
\* visited whatever the contents
TimingSafeEqual(a, b) ==
    [eq |-> \A i \in 1..Len(a) : a[i] = b[i], steps |-> Len(a)]

\* scraper.js:524  !config.calendarToken || req.params.token !== config.calendarToken
ServerGate(cfg, tok) ==
    IF cfg.calendarToken = <<>>
    THEN [pass |-> FALSE, status |-> 403, msg |-> "Invalid token",
          cmp |-> "none", steps |-> 0]
    ELSE LET c == StrictNotEquals(tok, cfg.calendarToken)
         IN IF c.ne
            THEN [pass |-> FALSE, status |-> 403, msg |-> "Invalid token",
                  cmp |-> "strict", steps |-> c.steps]
            ELSE [pass |-> TRUE, status |-> 200, msg |-> "",
                  cmp |-> "strict", steps |-> c.steps]

\* as VercelGate, with the length test alone deciding
VercelGateLengthOnly(cfg, tok) ==
    IF cfg.calendarToken = <<>>
    THEN [pass |-> FALSE, status |-> 500, msg |-> "Not configured. Visit /api/admin",
          cmp |-> "none", steps |-> 0]
    ELSE IF Len(cfg.calendarToken) # Len(tok)
    THEN [pass |-> FALSE, status |-> 403, msg |-> "Invalid token",
          cmp |-> "length", steps |-> 0]
    ELSE [pass |-> TRUE, status |-> 200, msg |-> "", cmp |-> "length", steps |-> 0]

\* README.md:153-162  not configured, then length check || timingSafeEqual
VercelGate(cfg, tok) ==
    IF cfg.calendarToken = <<>>
    THEN [pass |-> FALSE, status |-> 500, msg |-> "Not configured. Visit /api/admin",
          cmp |-> "none", steps |-> 0]
    ELSE IF Len(cfg.calendarToken) # Len(tok)
    THEN [pass |-> FALSE, status |-> 403, msg |-> "Invalid token",
          cmp |-> "length", steps |-> 0]
    ELSE LET c == TimingSafeEqual(cfg.calendarToken, tok)
         IN IF ~c.eq
            THEN [pass |-> FALSE, status |-> 403, msg |-> "Invalid token",
                  cmp |-> "timingSafeEqual", steps |-> c.steps]
            ELSE [pass |-> TRUE, status |-> 200, msg |-> "",
                  cmp |-> "timingSafeEqual", steps |-> c.steps]

Gate(v, cfg, tok) ==
    IF v = "server" THEN ServerGate(cfg, tok) ELSE VercelGate(cfg, tok)

\* the tokens a request can carry: the Express route /calendar/:token never
\* matches an empty segment; the serverless handler turns a missing token into ''
SuppliedTokens(v) == IF v = "server" THEN Tokens \ {<<>>} ELSE Tokens

(* --------------------------- cache policy ----------------------------- *)

\* as forceRefresh, but any value of the parameter given forces a refresh
forceRefreshTruthy(q) == q # "absent"

\* req.query.refresh === 'true'
forceRefresh(q) == q = "true"

\* as IsFresh, with the TTL taken in seconds instead of milliseconds
IsFreshSeconds(doc, t, ct) == doc # NoDoc /\ (t - ct) < 15 * 60

\* as IsFresh, with a document of exactly the TTL's age still fresh
IsFreshInclusive(doc, t, ct) == doc # NoDoc /\ (t - ct) <= CACHE_TTL

\* cachedICS && (now - cacheTime) < CACHE_TTL
IsFresh(doc, t, ct) == doc # NoDoc /\ (t - ct) < CACHE_TTL

\* !forceRefresh && cachedICS && (now - cacheTime) < CACHE_TTL
CacheHit(force, doc, t, ct) == ~force /\ IsFresh(doc, t, ct)

\* the errors thrown inside the try block before any fetch (README.md:175-180);
\* "" when nothing is thrown. The Express handler has no such check.
ConfigError(v, cfg) ==
    IF v = "server" THEN ""
    ELSE IF ~cfg.flaresolverrUrl THEN "FlareSolverr URL not configured. Visit /api/admin"
    ELSE IF ~cfg.credentials
    THEN "Appointy credentials not configured"
    ELSE ""

\* extractAppointmentsFromHTML / extractAppointments: the appointments of a page
Extract(html) == html

\* as generateICS, with no document for an empty list of appointments
generateICSNonEmpty(appointments) ==
    IF appointments = 0 THEN NoDoc ELSE [kind |-> "ics", events |-> appointments]

\* generateICS(appointments, calendarName): the calendar document text
generateICS(appointments) == [kind |-> "ics", events |-> appointments]

\* as StoredTime, storing the instant the document expires
StoredTimeExpiry(reqNow, clock) == reqNow + CACHE_TTL

\* the timestamp stored with a generated document: the handler's `now`,
\* read before the scrape started (cacheTime = now)
StoredTime(reqNow, clock) == reqNow

\* as CatchResponse, without the stale fallback
CatchAlwaysError(doc, msg) ==
    [status |-> 500, xcache |-> "none", body |-> NoDoc, msg |-> msg]

\* as CatchResponse, without the test that a document is cached
CatchAlwaysStale(doc, msg) ==
    [status |-> 200, xcache |-> "STALE", body |-> doc, msg |-> ""]

\* the catch branch: the cached document as STALE when there is one, else a 500
CatchResponse(doc, msg) ==
    IF doc # NoDoc
    THEN [status |-> 200, xcache |-> "STALE", body |-> doc, msg |-> ""]
    ELSE [status |-> 500, xcache |-> "none", body |-> NoDoc, msg |-> msg]

\* the event of a step of invocation rq that found the cache slot (doc, ct)
Event(kind, rq, a, doc, ct) ==
    [kind |-> kind, token |-> rq.token, refresh |-> rq.refresh, valid |-> rq.valid,
     phase |-> rq.phase, status |-> a.status, xcache |-> a.xcache, body |-> a.body,
     msg |-> a.msg, cmp |-> rq.cmp, steps |-> rq.steps, calls |-> rq.calls,
     failed |-> rq.failed, threw |-> rq.threw, trace |-> rq.trace,
     before |-> [doc |-> doc, time |-> ct], at |-> rq.now, found |-> rq.found,
     miss |-> rq.miss]

\* the response a sent for invocation rq
Resp(rq, a) ==
    Event("response", [rq EXCEPT !.trace = Append(@, "send")], a, cachedICS, cacheTime)

\* invocation rq suspends on its scrape
Await(rq) ==
    Event("await", rq, [status |-> 0, xcache |-> "none", body |-> NoDoc, msg |-> ""],
          cachedICS, cacheTime)

\* replies of the page fetcher to one call: a FlareSolverr JSON answer with
\* status ok or error, or a rejected fetch ("throw": network failure, bad JSON)
FetchReplies ==
    [status : {"ok"}, login : BOOLEAN, bookings : BOOLEAN, html : Htmls]
    \cup [status : {"error", "throw"}, login : {FALSE}, bookings : {FALSE}, html : {0}]

\* calc while no pure function is being exercised
NoCalc == [fn |-> "none"]

(* ------------------------------- Init --------------------------------- *)

\* the Express server's config.json has no flaresolverrUrl field
ConfigsOf(v) == {c \in Configs : v = "server" => ~c.flaresolverrUrl}

Init ==
    /\ variant \in Variants
    /\ config \in ConfigsOf(variant)
    /\ now = StartTime
    /\ cachedICS = NoDoc
    /\ cacheTime = 0
    /\ pc = [r \in Reqs |-> "idle"]
    /\ req = [r \in Reqs |-> IdleReq]
    /\ out = NoResp
    /\ calc = NoCalc

(* ------------------------------ actions ------------------------------- *)

Scraping == {"scrape", "initial", "login", "bookings"}

\* maxDuration: at time t the platform has ended every serverless invocation
\* that started MAX_DURATION or more before; its handler sends nothing and
\* never reaches its cache write
Overdue(r, t) ==
    variant = "vercel" /\ pc[r] \in Scraping /\ t - req[r].now >= MAX_DURATION

\* Date.now() moves forward
Tick ==
    /\ out = NoResp
    /\ now < StartTime + MaxTicks * TickStep
    /\ now' = now + TickStep
    /\ pc' = [r \in Reqs |-> IF Overdue(r, now') THEN "idle" ELSE pc[r]]
    /\ req' = [r \in Reqs |-> IF Overdue(r, now') THEN IdleReq ELSE req[r]]
    /\ UNCHANGED <<calc, variant, config, cachedICS, cacheTime, out>>

\* the persisted configuration (config.json, or the Redis record with its
\* environment fallback) is replaced by c. A handler loads the configuration
\* in its first step and never again, so a change made while a scrape is
\* suspended is seen by every later request exactly as one made once the
\* scrape is over: changes are taken between scrapes.
ConfigChange(c) ==
    /\ out = NoResp
    /\ \A r \in Reqs : pc[r] = "idle"
    /\ c \in ConfigsOf(variant)
    /\ c # config
    /\ config' = c
    /\ UNCHANGED <<calc, variant, now, cachedICS, cacheTime, pc, req, out>>

\* the event loop moves on: the response is with the client, or the
\* suspended handler has yielded
Deliver ==
    /\ out # NoResp
    /\ out' = NoResp
    /\ UNCHANGED <<calc, variant, config, now, cachedICS, cacheTime, pc, req>>

\* request r ends with answer a; the cache is left alone
Answer(r, rq, a) ==
    /\ out' = Resp(rq, a)
    /\ pc' = [pc EXCEPT ![r] = "idle"]
    /\ req' = [req EXCEPT ![r] = IdleReq]
    /\ UNCHANGED <<cachedICS, cacheTime>>

\* as Succeed, keeping a cached document whose timestamp is later than the
\* request's `now`
SucceedKeepNewer(r, rq, html) ==
    LET doc == generateICS(Extract(html))
        rq2 == [rq EXCEPT !.trace = Append(@, "store"), !.found = Extract(html)]
        keep == cachedICS # NoDoc /\ cacheTime > rq.now
    IN /\ cachedICS' = IF keep THEN cachedICS ELSE doc
       /\ cacheTime' = IF keep THEN cacheTime ELSE StoredTime(rq.now, now)
       /\ out' = Resp(rq2, [status |-> 200, xcache |-> "MISS", body |-> doc, msg |-> ""])
       /\ pc' = [pc EXCEPT ![r] = "idle"]
       /\ req' = [req EXCEPT ![r] = IdleReq]

\* the success branch: store the document with the request's `now`, send it
Succeed(r, rq, html) ==
    LET doc == generateICS(Extract(html))
        rq2 == [rq EXCEPT !.trace = Append(@, "store"), !.found = Extract(html)]
    IN /\ cachedICS' = doc
       /\ cacheTime' = StoredTime(rq.now, now)
       /\ out' = Resp(rq2, [status |-> 200, xcache |-> "MISS", body |-> doc, msg |-> ""])
       /\ pc' = [pc EXCEPT ![r] = "idle"]
       /\ req' = [req EXCEPT ![r] = IdleReq]

\* as Fail, with the cache timestamp reset by the catch branch
FailResetsClock(r, rq, msg) ==
    /\ out' = Resp([rq EXCEPT !.threw = TRUE], CatchResponse(cachedICS, msg))
    /\ pc' = [pc EXCEPT ![r] = "idle"]
    /\ req' = [req EXCEPT ![r] = IdleReq]
    /\ cachedICS' = cachedICS
    /\ cacheTime' = 0

\* the catch branch, entered with error message msg
Fail(r, rq, msg) ==
    Answer(r, [rq EXCEPT !.threw = TRUE], CatchResponse(cachedICS, msg))

\* GET /calendar/:token (scraper.js:521) or /api/calendar/:token (README.md:149)
\* with token tok and ?refresh=q, up to the handler's first await on the scrape
Request(r, tok, q) ==
    /\ out = NoResp
    /\ pc[r] = "idle"
    /\ \A r2 \in Reqs : r2 < r => pc[r2] # "idle"
    /\ tok \in SuppliedTokens(variant)
    /\ LET g == Gate(variant, config, tok)
           rq0 == [IdleReq EXCEPT !.token = tok, !.refresh = "-",
                                  !.phase = "arrival",
                                  !.valid = (tok = config.calendarToken /\ tok # <<>>),
                                  !.now = now,
                                  !.cmp = g.cmp, !.steps = g.steps,
                                  !.trace = <<"gate">>]
           rq1 == [rq0 EXCEPT !.refresh = q, !.trace = Append(@, "cachecheck")]
           err == ConfigError(variant, config)
       IN IF ~g.pass
          THEN Answer(r, rq0, [status |-> g.status, xcache |-> "none",
                               body |-> NoDoc, msg |-> g.msg])
          ELSE IF CacheHit(forceRefresh(q), cachedICS, now, cacheTime)
          THEN Answer(r, rq1, [status |-> 200, xcache |-> "HIT",
                               body |-> cachedICS, msg |-> ""])
          ELSE IF err # ""
          THEN Fail(r, rq1, err)
          ELSE LET rq2 == [rq1 EXCEPT !.calls = 1, !.trace = Append(@, "fetch"),
                                      !.miss = IF cachedICS = NoDoc THEN "empty"
                                               ELSE IF IsFresh(cachedICS, now, cacheTime)
                                               THEN "forced" ELSE "stale"]
               IN /\ pc' = [pc EXCEPT ![r] = IF variant = "server" THEN "scrape"
                                                                   ELSE "initial"]
                  /\ req' = [req EXCEPT ![r] = [rq2 EXCEPT !.refresh = "-",
                                                           !.phase = "completion"]]
                  /\ out' = Await(rq2)
                  /\ UNCHANGED <<cachedICS, cacheTime>>
    /\ UNCHANGED <<calc, variant, config, now>>

\* scrapeAppointments(config) resolves with the appointments of page html
ScrapeOk(r, html) ==
    /\ out = NoResp
    /\ pc[r] = "scrape"
    /\ Succeed(r, req[r], html)
    /\ UNCHANGED <<calc, variant, config, now>>

\* scrapeAppointments(config) rejects
ScrapeFail(r) ==
    /\ out = NoResp
    /\ pc[r] = "scrape"
    /\ Fail(r, req[r], "Error fetching appointments")
    /\ UNCHANGED <<calc, variant, config, now>>

\* after the login step: fetch the bookings page unless already on it
AfterLogin(r, rq) ==
    IF ~rq.onBookings
    THEN /\ pc' = [pc EXCEPT ![r] = "bookings"]
         /\ req' = [req EXCEPT ![r] =
                      [rq EXCEPT !.calls = @ + 1, !.trace = Append(@, "fetch")]]
         /\ out' = NoResp
         /\ UNCHANGED <<cachedICS, cacheTime>>
    ELSE Succeed(r, rq, rq.html)

\* scrapeWithFlaresolverr step 1: the reply to the initial request.get
InitialReply(r, rep) ==
    /\ out = NoResp
    /\ pc[r] = "initial"
    /\ IF rep.status = "throw"
       THEN Fail(r, [req[r] EXCEPT !.failed = TRUE], "fetch failed")
       ELSE IF rep.status # "ok"
       THEN Fail(r, [req[r] EXCEPT !.failed = TRUE], "FlareSolverr error")
       ELSE LET rq == [req[r] EXCEPT !.html = rep.html, !.onBookings = rep.bookings]
            IN IF rep.login
               THEN /\ pc' = [pc EXCEPT ![r] = "login"]
                    /\ req' = [req EXCEPT ![r] =
                                 [rq EXCEPT !.calls = @ + 1,
                                            !.trace = Append(@, "fetch")]]
                    /\ out' = NoResp
                    /\ UNCHANGED <<cachedICS, cacheTime>>
               ELSE AfterLogin(r, rq)
    /\ UNCHANGED <<calc, variant, config, now>>

\* step 2: the reply to the login request.post; a status other than ok
\* leaves cookies, html and url as they were and the scrape goes on
LoginReply(r, rep) ==
    /\ out = NoResp
    /\ pc[r] = "login"
    /\ IF rep.status = "throw"
       THEN Fail(r, [req[r] EXCEPT !.failed = TRUE], "fetch failed")
       ELSE IF rep.status = "ok"
       THEN AfterLogin(r, [req[r] EXCEPT !.html = rep.html,
                                         !.onBookings = rep.bookings])
       ELSE AfterLogin(r, [req[r] EXCEPT !.failed = TRUE])
    /\ UNCHANGED <<calc, variant, config, now>>

\* step 3: the reply to the bookings request.get; a status other than ok
\* leaves html as it was and the extraction runs on it
BookingsReply(r, rep) ==
    /\ out = NoResp
    /\ pc[r] = "bookings"
    /\ IF rep.status = "throw"
       THEN Fail(r, [req[r] EXCEPT !.failed = TRUE], "fetch failed")
       ELSE IF rep.status = "ok"
       THEN Succeed(r, [req[r] EXCEPT !.onBookings = rep.bookings], rep.html)
       ELSE Succeed(r, [req[r] EXCEPT !.failed = TRUE], req[r].html)
    /\ UNCHANGED <<calc, variant, config, now>>

Next ==
    \/ Tick
    \/ Deliver
    \/ \E c \in Configs : ConfigChange(c)
    \/ \E r \in Reqs, tok \in Tokens, q \in RefreshValues : Request(r, tok, q)
    \/ \E r \in Reqs, h \in Htmls : ScrapeOk(r, h)
    \/ \E r \in Reqs : ScrapeFail(r)
    \/ \E r \in Reqs, rep \in FetchReplies : InitialReply(r, rep)
    \/ \E r \in Reqs, rep \in FetchReplies : LoginReply(r, rep)
    \/ \E r \in Reqs, rep \in FetchReplies : BookingsReply(r, rep)

Spec == Init /\ [][Next]_vars

(* ------------------------------ claims -------------------------------- *)

\* the last handler step was the first step of a request with the configured
\* token, and the handler read ?refresh= as something other than 'true'
ArrivedNoForce == out.phase = "arrival" /\ out.valid /\ out.refresh # "true"

\* the cache slot held a document when the last handler step began
HadDoc == out.before.doc # NoDoc

\* the age, at the last handler step, of the document the cache slot held
Age == now - out.before.time

\* the last handler step left the cache slot as it found it
CacheUntouched == cachedICS = out.before.doc /\ cacheTime = out.before.time

\* the page-fetcher URL and the login credentials the handler checks for are
\* there (the Express handler checks for none)
ScrapeConfigured ==
    variant = "server" \/ (config.flaresolverrUrl /\ config.credentials)

\* C1: a request with the configured token and no force-refresh that finds a
\* cached document younger than 15 minutes is answered at once with exactly
\* that document, marked HIT, without any upstream fetch and without a
\* change to the cache.
C1_FreshCacheIsHit ==
    (ArrivedNoForce /\ HadDoc /\ Age < 15 * 60 * 1000)
        => /\ out.kind = "response"
           /\ out.status = 200
           /\ out.xcache = "HIT"
           /\ out.body = out.before.doc
           /\ out.calls = 0
           /\ CacheUntouched

\* C1 witness: a HIT served from a document that is 7.5 minutes old
C1_Witness ==
    /\ ArrivedNoForce /\ HadDoc /\ Age > 0 /\ Age < 15 * 60 * 1000
    /\ out.xcache = "HIT"

C4_AsStated ==
    (out.kind = "response" /\ out.xcache = "MISS")
        => /\ out.status = 200
           /\ out.body # NoDoc
           /\ cachedICS = out.body
           /\ now - cacheTime < 15 * 60 * 1000

\* C5: no calendar document is sent to a request whose token is not the
\* configured token; such a request is turned away by the token check
\* before any cache read or fetch, and a request with the configured token
\* passes the check.
C5_NoDocumentWithoutToken ==
    /\ (out.kind = "response" /\ out.body # NoDoc) => out.valid
    /\ out.kind # "none" => out.trace[1] = "gate"
    /\ (out.phase = "arrival" /\ ~out.valid)
          => /\ out.kind = "response"
             /\ out.status \in {403, 500}
             /\ out.xcache = "none"
             /\ out.body = NoDoc
             /\ out.trace = <<"gate", "send">>
             /\ out.calls = 0
             /\ CacheUntouched
    /\ (out.phase = "arrival" /\ out.valid)
          => /\ Len(out.trace) >= 2
             /\ out.trace[2] = "cachecheck"
             /\ out.status # 403

\* C5 witness: a token of the right length and the wrong content is turned
\* away while a fresh document sits in the cache
C5_Witness ==
    /\ out.phase = "arrival" /\ ~out.valid
    /\ out.token # config.calendarToken
    /\ Len(out.token) = Len(config.calendarToken)
    /\ HadDoc /\ Age < 15 * 60 * 1000
    /\ out.status = 403

\* C6 as stated: in every handler a token of another length than the
\* configured one is rejected without the timing-safe comparator, and a token
\* of the same length is decided by the timing-safe comparator, which looks
\* at every character, never by a comparison that stops at the first
\* difference.
C6_AsStated ==
    (out.phase = "arrival" /\ config.calendarToken # <<>>)
        => IF Len(out.token) # Len(config.calendarToken)
           THEN out.status = 403 /\ out.cmp # "timingSafeEqual"
           ELSE out.cmp = "timingSafeEqual" /\ out.steps = Len(config.calendarToken)

\* C7 as stated: when the access token, the page-fetcher URL or the login
\* credentials are missing from the configuration, the request is answered
\* with a "not configured" response, and a missing access token is never
\* reported as an invalid token.
C7_AsStated ==
    /\ (out.phase = "arrival" /\ config.calendarToken = <<>>)
          => /\ out.kind = "response"
             /\ out.msg = "Not configured. Visit /api/admin"
             /\ out.status # 403
    /\ (out.phase = "arrival" /\ out.valid /\ ~ScrapeConfigured)
          => /\ out.kind = "response"
             /\ out.msg \in {"FlareSolverr URL not configured. Visit /api/admin",
                             "Appointy credentials not configured"}

\* C8: when generation throws on a request with the configured token and no
\* document is cached, the response is a 500 with a message and no calendar
\* body, and the cache stays empty (document null, timestamp 0).
C8_EmptyCacheFailure ==
    (out.kind = "response" /\ out.valid /\ out.threw /\ ~HadDoc)
        => /\ out.status = 500
           /\ out.msg # ""
           /\ out.xcache = "none"
           /\ out.body = NoDoc
           /\ cachedICS = NoDoc
           /\ cacheTime = 0

\* C8 witness: a 500 after an upstream fetch failed on an empty cache
C8_Witness ==
    /\ out.kind = "response" /\ out.valid /\ out.threw /\ ~HadDoc
    /\ out.calls > 0
    /\ out.status = 500

\* C9 as stated: when any call to the page fetcher of a scrape (initial
\* page, login, bookings page) returned an error or did not return, the cache
\* is not overwritten and the response is the previous cached document if
\* there is one, otherwise a generation error.
C9_AsStated ==
    (out.kind = "response" /\ out.failed)
        => /\ CacheUntouched
           /\ IF HadDoc
              THEN out.xcache = "STALE" /\ out.body = out.before.doc
              ELSE out.status = 500 /\ out.body = NoDoc

\* the cached document was younger than 15 minutes when a request with the
\* configured token arrived
ArrivedFresh ==
    out.phase = "arrival" /\ out.valid /\ HadDoc /\ Age < 15 * 60 * 1000

C11_EmptyScrapeIsSuccess ==
    (out.kind = "response" /\ out.found = 0)
        => /\ ~out.threw
           /\ out.status = 200
           /\ out.xcache = "MISS"
           /\ out.body = [kind |-> "ics", events |-> 0]
           /\ out.body # NoDoc
           /\ cachedICS = out.body
           /\ cacheTime = out.at
           /\ cacheTime > 0

\* C11 witness: an empty calendar replaces a cached calendar with one event
C11_Witness ==
    /\ out.kind = "response" /\ out.found = 0
    /\ out.before.doc = [kind |-> "ics", events |-> 1]
    /\ out.xcache = "MISS"
    /\ cachedICS = [kind |-> "ics", events |-> 0]

\* the last event is a response of one of the two shapes a feed request may
\* get: a calendar document with status 200 marked HIT, MISS or STALE, or
\* an error status 403 or 500 with a message and no calendar body
ResponseShape ==
    out.kind = "response"
        => \/ /\ out.status = 200
              /\ out.xcache \in {"HIT", "MISS", "STALE"}
              /\ out.body # NoDoc
              /\ out.msg = ""
           \/ /\ out.status \in {403, 500}
              /\ out.xcache = "none"
              /\ out.body = NoDoc
              /\ out.msg # ""

\* C12 as stated: every feed request gets exactly one response from the
\* handler, a calendar document (HIT, MISS or STALE) or an error status
\* (403 or 500) with a message: a step that takes a request in produces its
\* response or suspends it on its scrape, and a suspended request leaves the
\* handler only by the step that sends its one response.
C12_AsStated ==
    [][/\ ResponseShape'
       /\ (out = NoResp /\ out' # NoResp)
             => \/ out'.kind = "response"
                \/ out'.kind = "await" /\ \E r \in Reqs : pc[r] = "idle" /\ pc'[r] # "idle"
       /\ \A r \in Reqs :
             (pc[r] # "idle" /\ pc'[r] = "idle")
                => /\ out'.kind = "response"
                   /\ out'.at = req[r].now
                   /\ \A r2 \in Reqs \ {r} : pc'[r2] = pc[r2]]_vars

(* ------------------------- time normalizers --------------------------- *)

handlerVars == <<variant, config, now, cachedICS, cacheTime, pc, req, out>>

\* the feed handler of a server that has taken no request: the state in
\* which the specifications of the pure parts leave the handler's variables
HandlerAtRest ==
    /\ variant = "server"
    /\ config = [calendarToken |-> <<>>, flaresolverrUrl |-> FALSE,
                 credentials |-> FALSE]
    /\ now = StartTime
    /\ cachedICS = NoDoc
    /\ cacheTime = 0
    /\ pc = [r \in Reqs |-> "idle"]
    /\ req = [r \in Reqs |-> IdleReq]
    /\ out = NoResp

\* the hours and minutes of a 12-hour clock time, as parseInt reads the
\* one- or two-digit groups of the time patterns
Hours == 1..12

Minutes == 0..59

\* the meridiem group of the time patterns, which all carry the i flag:
\* undefined (<<>>) or am / pm in any letter case
Meridiems == {<<>>} \cup {<<a, m>> : a \in {"a", "A", "p", "P"}, m \in {"m", "M"}}

\* String.prototype.toUpperCase on the letters of a meridiem
toUpperCase(s) ==
    [i \in DOMAIN s |-> CASE s[i] = "a" -> "A"
                          [] s[i] = "p" -> "P"
                          [] s[i] = "m" -> "M"
                          [] OTHER -> s[i]]

\* String.prototype.toLowerCase on the letters of a meridiem
toLowerCase(s) ==
    [i \in DOMAIN s |-> CASE s[i] = "A" -> "a"
                          [] s[i] = "P" -> "p"
                          [] s[i] = "M" -> "m"
                          [] OTHER -> s[i]]

\* as startHour, with 12 added to every PM hour
startHourAlways12(h, mer) ==
    IF mer # <<>> /\ toUpperCase(mer) = <<"P", "M">>
    THEN h + 12
    ELSE IF mer # <<>> /\ toUpperCase(mer) = <<"A", "M">> /\ h = 12 THEN 0 ELSE h

\* README.md:403-407  parseAppointment, start time: two ifs in sequence
\*   if (startMer?.toUpperCase() === 'PM' && startHour !== 12) startHour += 12;
\*   if (startMer?.toUpperCase() === 'AM' && startHour === 12) startHour = 0;
startHour(h, mer) ==
    LET h1 == IF mer # <<>> /\ toUpperCase(mer) = <<"P", "M">> /\ h # 12
              THEN h + 12 ELSE h
    IN IF mer # <<>> /\ toUpperCase(mer) = <<"A", "M">> /\ h1 = 12 THEN 0 ELSE h1

\* README.md:415-420  parseAppointment, end time: the same two ifs on endHour
endHour(h, mer) ==
    LET h1 == IF mer # <<>> /\ toUpperCase(mer) = <<"P", "M">> /\ h # 12
              THEN h + 12 ELSE h
    IN IF mer # <<>> /\ toUpperCase(mer) = <<"A", "M">> /\ h1 = 12 THEN 0 ELSE h1

\* scraper.js:338-359  parseDateTime: if (meridiem) { if PM .. else if AM .. }
parseDateTime(h, mer) ==
    IF mer # <<>>
    THEN IF toUpperCase(mer) = <<"P", "M">> /\ h # 12
         THEN h + 12
         ELSE IF toUpperCase(mer) = <<"A", "M">> /\ h = 12 THEN 0 ELSE h
    ELSE h

\* scraper.js:994-1002  parseAppointmentData: ampm = raw.ampm?.toLowerCase()
\*   if (ampm === 'pm' && hour !== 12) hour += 12;
\*   if (ampm === 'am' && hour === 12) hour = 0;
parseAppointmentData(h, mer) ==
    LET ampm == toLowerCase(mer)
        h1 == IF mer # <<>> /\ ampm = <<"p", "m">> /\ h # 12 THEN h + 12 ELSE h
    IN IF mer # <<>> /\ ampm = <<"a", "m">> /\ h1 = 12 THEN 0 ELSE h1

\* the normalizers and the times they are given: parseAppointmentData reads
\* a start time only
TimeInputs ==
    [fn : {"startHour", "endHour", "parseDateTimeStart", "parseDateTimeEnd",
           "parseAppointmentData"},
     hour : Hours, minute : Minutes, mer : Meridiems,
     done : {FALSE}, h24 : {-1}, min : {-1}]

InitTime ==
    /\ HandlerAtRest
    /\ calc \in TimeInputs

\* the hour and minute handed to setHours / new Date by the normalizer
Normalized(h24) ==
    calc' = [calc EXCEPT !.done = TRUE, !.h24 = h24, !.min = calc.minute]

NormalizeVercel ==
    /\ calc.fn \in {"startHour", "endHour"}
    /\ ~calc.done
    /\ Normalized(IF calc.fn = "startHour" THEN startHour(calc.hour, calc.mer)
                                           ELSE endHour(calc.hour, calc.mer))
    /\ UNCHANGED handlerVars

NormalizeBrowserless ==
    /\ calc.fn \in {"parseDateTimeStart", "parseDateTimeEnd"}
    /\ ~calc.done
    /\ Normalized(parseDateTime(calc.hour, calc.mer))
    /\ UNCHANGED handlerVars

NormalizeServer ==
    /\ calc.fn = "parseAppointmentData"
    /\ ~calc.done
    /\ Normalized(parseAppointmentData(calc.hour, calc.mer))
    /\ UNCHANGED handlerVars

NextTime == NormalizeVercel \/ NormalizeBrowserless \/ NormalizeServer

SpecTime == InitTime /\ [][NextTime]_vars

\* C13: for every hour 1..12, minute 0..59 and meridiem in any letter case,
\* each normalizer yields hour + 12 for PM when the hour is not 12, 0 for AM
\* when the hour is 12, and the hour unchanged otherwise, including when there
\* is no meridiem; the minute is unchanged. Start and end times of all three
\* normalizers therefore agree.
C13_MeridiemConversion ==
    calc.done
        => LET pm == calc.mer \in {<<"p", "m">>, <<"p", "M">>, <<"P", "m">>, <<"P", "M">>}
               am == calc.mer \in {<<"a", "m">>, <<"a", "M">>, <<"A", "m">>, <<"A", "M">>}
           IN /\ calc.h24 = IF pm /\ calc.hour # 12 THEN calc.hour + 12
                            ELSE IF am /\ calc.hour = 12 THEN 0
                            ELSE calc.hour
              /\ calc.h24 \in 0..23
              /\ calc.min = calc.minute

\* C13 witness: the vercel start time 12:00 aM has become 00:00
C13_Witness ==
    /\ calc.done
    /\ calc.fn = "startHour"
    /\ calc.hour = 12 /\ calc.minute = 0 /\ calc.mer = <<"a", "M">>
    /\ calc.h24 = 0 /\ calc.min = 0

(* ------------------------ appointment builders ------------------------ *)

\* number of days after the first one that a matched date may name
MaxDay == 1

\* null: no Date
Null == -1

\* Date.getTime() of local midnight of day d plus h24:min, in milliseconds
DateAt(d, h24, min) == d * 24 * 60 * 60 * 1000 + (h24 * 60 + min) * 60 * 1000

\* the time matches an appointment is built from: a start time and, when
\* the pattern's optional second half matched, an end time
TimeMatches ==
    [hour : {1, 11, 12}, minute : {0, 30, 59}, mer : {<<>>, <<"a", "m">>, <<"P", "M">>},
     hasEnd : {FALSE}, ehour : {0}, eminute : {0}, emer : {<<>>}]
    \cup [hour : {1, 11, 12}, minute : {0, 30, 59}, mer : {<<>>, <<"a", "m">>, <<"P", "M">>},
          hasEnd : {TRUE}, ehour : {1, 12}, eminute : {0, 45},
          emer : {<<>>, <<"a", "m">>, <<"p", "m">>}]

\* as parseAppointmentHTML, with an end that is not after the start moved to
\* the next day
parseAppointmentRollover(d, tm) ==
    LET start == DateAt(d, startHour(tm.hour, tm.mer), tm.minute)
        end == DateAt(d, endHour(tm.ehour, tm.emer), tm.eminute)
    IN [start |-> start,
        end |-> IF tm.hasEnd
                THEN (IF end <= start THEN end + 24 * 60 * 60 * 1000 ELSE end)
                ELSE start + 60 * 60 * 1000]

\* README.md:385-440  parseAppointment(dateStr, timeMatch, contextText):
\* start and end of the appointment; no timeMatch[4] gives start + 1 hour
parseAppointmentHTML(d, tm) ==
    LET start == DateAt(d, startHour(tm.hour, tm.mer), tm.minute)
    IN [start |-> start,
        end |-> IF tm.hasEnd
                THEN DateAt(d, endHour(tm.ehour, tm.emer), tm.eminute)
                ELSE start + 60 * 60 * 1000]

\* scraper.js:294-318  parseAppointment(rawApt): start and end stay null
\* without a date; no rawApt.endTime gives start + 1 hour
parseAppointment(d, tm) ==
    IF d = Null
    THEN [start |-> Null, end |-> Null]
    ELSE LET start == DateAt(d, parseDateTime(tm.hour, tm.mer), tm.minute)
         IN [start |-> start,
             end |-> IF tm.hasEnd
                     THEN DateAt(d, parseDateTime(tm.ehour, tm.emer), tm.eminute)
                     ELSE start + 60 * 60 * 1000]

\* scraper.js:1004-1007  parseAppointmentData: the end is always start + 1 hour
parseAppointmentDataDates(d, tm) ==
    LET start == DateAt(d, parseAppointmentData(tm.hour, tm.mer), tm.minute)
    IN [start |-> start, end |-> start + 60 * 60 * 1000]

\* as generateCalendarEvent, with the default length taken in seconds
generateCalendarEventSeconds(apt) ==
    [start |-> apt.start,
     end |-> IF apt.end # Null THEN apt.end ELSE apt.start + 60 * 60]

\* calendar.js:22-36  generateCalendar, one appointment with a start:
\* end: apt.end || new Date(apt.start.getTime() + 60 * 60 * 1000)
generateCalendarEvent(apt) ==
    [start |-> apt.start,
     end |-> IF apt.end # Null THEN apt.end ELSE apt.start + 60 * 60 * 1000]

\* a date and a time match handed to a builder; the pattern behind
\* parseAppointmentData captures no end time, and parseAppointment may be
\* given no date
BuildInputs ==
    [fn : {"parseAppointmentHTML"},
     day : 0..MaxDay, tm : TimeMatches, done : {FALSE}, apt : {[start |-> Null, end |-> Null]}]
    \cup [fn : {"parseAppointmentDataDates"},
          day : 0..MaxDay, tm : {t \in TimeMatches : ~t.hasEnd}, done : {FALSE},
          apt : {[start |-> Null, end |-> Null]}]
    \cup [fn : {"parseAppointment"},
          day : {Null} \cup 0..MaxDay, tm : TimeMatches, done : {FALSE},
          apt : {[start |-> Null, end |-> Null]}]

InitBuild ==
    /\ HandlerAtRest
    /\ calc \in BuildInputs

BuildVercel ==
    /\ calc.fn = "parseAppointmentHTML"
    /\ ~calc.done
    /\ calc' = [calc EXCEPT !.done = TRUE, !.apt = parseAppointmentHTML(calc.day, calc.tm)]
    /\ UNCHANGED handlerVars

BuildServer ==
    /\ calc.fn = "parseAppointmentDataDates"
    /\ ~calc.done
    /\ calc' = [calc EXCEPT !.done = TRUE,
                            !.apt = parseAppointmentDataDates(calc.day, calc.tm)]
    /\ UNCHANGED handlerVars

BuildBrowserless ==
    /\ calc.fn = "parseAppointment"
    /\ ~calc.done
    /\ calc' = [calc EXCEPT !.done = TRUE, !.apt = parseAppointment(calc.day, calc.tm)]
    /\ UNCHANGED handlerVars

\* generateCalendar takes the appointments parseAppointment built, and as
\* an exported function any appointment with or without an end; the ones
\* without a start are skipped
EncodeEvent ==
    /\ calc.fn = "parseAppointment"
    /\ calc.done
    /\ calc.apt.start # Null
    /\ \E e \in {calc.apt.end, Null} :
          calc' = [calc EXCEPT !.fn = "generateCalendar",
                               !.tm = [calc.tm EXCEPT !.hasEnd = (e # Null)],
                               !.apt = generateCalendarEvent([start |-> calc.apt.start,
                                                              end |-> e])]
    /\ UNCHANGED handlerVars

NextBuild == BuildVercel \/ BuildServer \/ BuildBrowserless \/ EncodeEvent

SpecBuild == InitBuild /\ [][NextBuild]_vars

\* C14: an appointment built from a match without an end time, by any of
\* the three builders, and an event the calendar encoder makes from an
\* appointment without an end, ends exactly 60 minutes (3,600,000 ms) after
\* it starts.
C14_DefaultDuration ==
    (calc.done /\ calc.apt.start # Null /\ ~calc.tm.hasEnd)
        => calc.apt.end - calc.apt.start = 60 * 60000

\* C14 witness: the encoder's default for an 11:30 PM start without an end,
\* which ends on the next day
C14_Witness ==
    /\ calc.done /\ calc.fn = "generateCalendar" /\ ~calc.tm.hasEnd
    /\ calc.tm.hour = 11 /\ calc.tm.minute = 30 /\ calc.tm.mer = <<"P", "M">>
    /\ calc.apt.start = DateAt(calc.day, 23, 30)
    /\ calc.apt.end = DateAt(calc.day + 1, 0, 30)

\* C23: when a second hour and minute are captured, the serverless and the
\* Browserless builders put the end on the calendar date of the start, with
\* the meridiem conversion of the start times, and never on the next day:
\* an end reading that is not later in the day than the start reading gives
\* end <= start.
C23_EndOnSameDate ==
    (calc.done /\ calc.fn \in {"parseAppointmentHTML", "parseAppointment"}
       /\ calc.tm.hasEnd /\ calc.apt.start # Null)
        => LET t == calc.tm
               pm == t.emer \in {<<"p", "m">>, <<"P", "M">>}
               am == t.emer \in {<<"a", "m">>, <<"A", "M">>}
               eh == IF pm /\ t.ehour # 12 THEN t.ehour + 12
                     ELSE IF am /\ t.ehour = 12 THEN 0 ELSE t.ehour
               midnight == DateAt(calc.day, 0, 0)
           IN /\ calc.apt.end = DateAt(calc.day, eh, t.eminute)
              /\ midnight <= calc.apt.end
              /\ calc.apt.end < DateAt(calc.day + 1, 0, 0)
              /\ (eh * 60 + t.eminute <= (calc.apt.start - midnight) \div 60000)
                    => calc.apt.end <= calc.apt.start

\* C23 witness: 11:30 PM - 12:45 am built by the serverless builder ends at
\* 00:45 of the same day, before it starts
C23_Witness ==
    /\ calc.done /\ calc.fn = "parseAppointmentHTML" /\ calc.tm.hasEnd
    /\ calc.tm.hour = 11 /\ calc.tm.minute = 30 /\ calc.tm.mer = <<"P", "M">>
    /\ calc.tm.ehour = 12 /\ calc.tm.eminute = 45 /\ calc.tm.emer = <<"a", "m">>
    /\ calc.apt.start = DateAt(calc.day, 23, 30)
    /\ calc.apt.end = DateAt(calc.day, 0, 45)
    /\ calc.apt.end < calc.apt.start

(* -------------------------- event identifiers ------------------------- *)

\* longest title, in symbols
MaxTitleLen == 2

\* latest start or end instant
MaxTime == 1

\* symbols of a title: a letter, the separator the encoders put between the
\* fields, and a piece of text that reads like a timestamp
TitleChars == {"A", "-", "T0"}

Titles == UNION {[1..n -> TitleChars] : n \in 0..MaxTitleLen}

Times == 0..MaxTime

\* Date.prototype.toISOString(): a text of fixed width, one per instant;
\* undefined (from ?.) when there is no Date
toISOString(t) ==
    IF t = Null THEN "undefined"
    ELSE CASE t = 0 -> "T0" [] t = 1 -> "T1" [] t = 2 -> "T2" [] OTHER -> "T3"

\* crypto.createHash('md5').update(content).digest('hex'): a function of the
\* content, taken to be free of collisions
md5(content) == [md5 |-> content]

\* calendar.js:56-62  generateUID(apt)
generateUID(apt) ==
    [hash |-> md5(apt.title \o <<"-", toISOString(apt.start), "-", toISOString(apt.end)>>),
     suffix |-> "@appointy-sync"]

\* README.md:450-453  generateICS: uid of one appointment
generateICSUid(apt) ==
    [hash |-> md5(apt.title \o <<"-", toISOString(apt.start), "-", toISOString(apt.end)>>),
     suffix |-> "@appointy-sync"]

\* scraper.js:1031-1033  generateICS: uid of one appointment, from
\* `${apt.start.toISOString()}-${apt.end.toISOString()}`
serverGenerateICSUid(apt) ==
    [hash |-> md5(<<toISOString(apt.start), "-", toISOString(apt.end)>>),
     suffix |-> "@appointy"]

\* appointments with a start: generateCalendar may be given one without an
\* end, the two generateICS are given what their builders return
Appointments(fn) ==
    [title : Titles, start : Times,
     end : IF fn = "generateUID" THEN Times \cup {Null} ELSE Times]

Encoders == {"generateUID", "generateICSUid", "serverGenerateICSUid"}

InitUid ==
    /\ HandlerAtRest
    /\ \E fn \in Encoders :
          calc \in [fn : {fn}, a : Appointments(fn), b : Appointments(fn),
                    done : {FALSE}, uidA : {Null}, uidB : {Null}]

\* both appointments are encoded, each in a run of its own
Identified(uidA, uidB) ==
    calc' = [calc EXCEPT !.done = TRUE, !.uidA = uidA, !.uidB = uidB]

UidCalendar ==
    /\ calc.fn = "generateUID" /\ ~calc.done
    /\ Identified(generateUID(calc.a), generateUID(calc.b))
    /\ UNCHANGED handlerVars

UidVercel ==
    /\ calc.fn = "generateICSUid" /\ ~calc.done
    /\ Identified(generateICSUid(calc.a), generateICSUid(calc.b))
    /\ UNCHANGED handlerVars

UidServer ==
    /\ calc.fn = "serverGenerateICSUid" /\ ~calc.done
    /\ Identified(serverGenerateICSUid(calc.a), serverGenerateICSUid(calc.b))
    /\ UNCHANGED handlerVars

NextUid == UidCalendar \/ UidVercel \/ UidServer

SpecUid == InitUid /\ [][NextUid]_vars

MaxApts == 2

\* the appointments of one scrape, in page order; the Browserless builder
\* may leave an appointment without a start (and then without an end)
EncoderAppointments(fn) ==
    [title : {<<"A">>, <<"-">>}, start : Times, end : Times]
    \cup (IF fn = "generateCalendar"
          THEN [title : {<<"A">>}, start : {Null}, end : {Null}]
          ELSE {})

AppointmentLists(fn) ==
    UNION {[1..n -> EncoderAppointments(fn)] : n \in 0..MaxApts}

\* calendar.js:15-54  generateCalendar: the events of the calendar, each
\* with its alarms (createAlarm triggers, in seconds relative to the start)
generateCalendar(appointments) ==
    LET kept == SelectSeq(appointments, LAMBDA apt : apt.start # Null)
    IN [i \in 1..Len(kept) |->
          [uid |-> generateUID(kept[i]),
           start |-> kept[i].start,
           end |-> generateCalendarEvent(kept[i]).end,
           summary |-> kept[i].title,
           alarms |-> <<-60 * 60, -24 * 60 * 60>>]]

\* README.md:442-465  generateICS: one createAlarm per event
vercelGenerateICS(appointments) ==
    [i \in 1..Len(appointments) |->
       [uid |-> generateICSUid(appointments[i]),
        start |-> appointments[i].start,
        end |-> appointments[i].end,
        summary |-> appointments[i].title,
        alarms |-> <<-60 * 60>>]]

\* scraper.js:1020-1045  generateICS: one createAlarm per event
serverGenerateICS(appointments) ==
    [i \in 1..Len(appointments) |->
       [uid |-> serverGenerateICSUid(appointments[i]),
        start |-> appointments[i].start,
        end |-> appointments[i].end,
        summary |-> appointments[i].title,
        alarms |-> <<-60 * 60>>]]

InitEncode ==
    /\ HandlerAtRest
    /\ \E fn \in {"generateCalendar", "vercelGenerateICS", "serverGenerateICS"} :
          calc \in [fn : {fn}, appointments : AppointmentLists(fn),
                    done : {FALSE}, events : {<<>>}]

EncodeCalendar ==
    /\ calc.fn = "generateCalendar" /\ ~calc.done
    /\ calc' = [calc EXCEPT !.done = TRUE, !.events = generateCalendar(calc.appointments)]
    /\ UNCHANGED handlerVars

EncodeVercel ==
    /\ calc.fn = "vercelGenerateICS" /\ ~calc.done
    /\ calc' = [calc EXCEPT !.done = TRUE, !.events = vercelGenerateICS(calc.appointments)]
    /\ UNCHANGED handlerVars

EncodeServer ==
    /\ calc.fn = "serverGenerateICS" /\ ~calc.done
    /\ calc' = [calc EXCEPT !.done = TRUE, !.events = serverGenerateICS(calc.appointments)]
    /\ UNCHANGED handlerVars

NextEncode == EncodeCalendar \/ EncodeVercel \/ EncodeServer

SpecEncode == InitEncode /\ [][NextEncode]_vars

\* C16 as stated: every event of every generated calendar document carries
\* two reminders, one 60 minutes and one 24 hours before the start.
C16_AsStated ==
    calc.done
        => \A i \in DOMAIN calc.events :
              /\ Len(calc.events[i].alarms) = 2
              /\ \E j \in 1..2 : calc.events[i].alarms[j] = -(60 * 60)
              /\ \E j \in 1..2 : calc.events[i].alarms[j] = -(24 * 60 * 60)

(* --------------------------- date scan -------------------------------- *)

\* most items in a page text
MaxItems == 3

\* the pieces of a page's plain text that matter to the scan:
\*   "full"   a date like "Monday, January 15, 2026"
\*   "short"  a date like "January 15, 2026"
\*   "slash"  a date like "1/15/2026"
\*   "time"   a time or time range like "4:00 PM - 5:00 PM"
\*   "text"   other words, such as "tutoring: Algebra Review"
Items == {"full", "short", "slash", "time", "text"}

\* page texts without booking cards, short enough for the window of 100
\* characters before and 200 after a date to cover the whole text
Texts == UNION {[1..n -> Items] : n \in 0..MaxItems}

\* README.md:311-315  datePatterns[family] finds a match in the item: the
\* weekday pattern in a full date, the month-day-year pattern in a short
\* date and in the tail of a full date, the numeric pattern in a slash date
DatePatternMatches(family, item) ==
    CASE family = 1 -> item = "full"
      [] family = 2 -> item \in {"full", "short"}
      [] OTHER -> item = "slash"

\* README.md:362-375  the matches of one pattern family, left to right,
\* each with the first time of its window
ScanFamily(text, family) ==
    LET positions == [i \in 1..Len(text) |-> i]
        dm == SelectSeq(positions, LAMBDA i : DatePatternMatches(family, text[i]))
        times == SelectSeq(positions, LAMBDA i : text[i] = "time")
    IN IF times = <<>>
       THEN <<>>
       ELSE [k \in 1..Len(dm) |-> [date |-> dm[k], family |-> family, time |-> times[1]]]

\* README.md:358-379  whole-document scan: for (const dp of datePatterns)
\* { while ((dm = dp.exec(plainText)) !== null) { ... push ... } }
extractAppointmentsFromHTML(text) ==
    ScanFamily(text, 1) \o ScanFamily(text, 2) \o ScanFamily(text, 3)

InitScan ==
    /\ HandlerAtRest
    /\ calc \in [fn : {"extractAppointmentsFromHTML"}, text : Texts,
                 done : {FALSE}, appointments : {<<>>}]

Scan ==
    /\ calc.fn = "extractAppointmentsFromHTML" /\ ~calc.done
    /\ calc' = [calc EXCEPT !.done = TRUE,
                            !.appointments = extractAppointmentsFromHTML(calc.text)]
    /\ UNCHANGED handlerVars

NextScan == Scan

SpecScan == InitScan /\ [][NextScan]_vars

\* C17 as stated: in the whole-document scan each date occurrence yields at
\* most one appointment, the first pattern family that matches it winning;
\* a text with one full date and one time range yields exactly one.
C17_AsStated ==
    calc.done
        => /\ \A i \in DOMAIN calc.text :
                 Cardinality({k \in DOMAIN calc.appointments :
                                 calc.appointments[k].date = i}) <= 1
           /\ calc.text = <<"full", "time">> => Len(calc.appointments) = 1

(* -------------------------- health endpoint --------------------------- *)

\* values of a secret field: '' (or undefined) when absent
SecretValues == {"", "s1", "s2"}

\* the secrets of a deployment: three fields of the stored configuration
\* and the ADMIN_PASSWORD environment variable
SecretSets ==
    [appointyEmail : SecretValues, appointyPassword : SecretValues,
     calendarToken : SecretValues, adminPassword : SecretValues]

\* what the health handler meets outside the secrets: the stored
\* flaresolverrUrl, how the Redis read ends (no Redis variables set, a
\* stored configuration, no stored configuration, a rejected fetch) and how
\* the FlareSolverr probe ends (status ok, another status, the URL refused
\* by fetch, no answer within 5 s)
Surroundings ==
    [flaresolverrUrl : {"", "http://flare"},
     redis : {"unset", "config", "empty", "throw"},
     flare : {"ok", "error", "badurl", "timeout"}]

\* JSON text of a boolean
Bool(b) == IF b THEN <<"true">> ELSE <<"false">>

\* as healthHandler, reporting the stored e-mail address itself
healthHandlerLeaky(secrets, sur) ==
    [status |-> <<"ok">>,
     redis |-> <<"connected">>,
     flaresolverr |-> <<"not configured">>,
     configured |-> [appointyEmail |-> <<secrets.appointyEmail>>,
                     appointyPassword |-> Bool(secrets.appointyPassword # ""),
                     flaresolverrUrl |-> Bool(sur.flaresolverrUrl # ""),
                     calendarToken |-> Bool(secrets.calendarToken # ""),
                     adminPassword |-> Bool(secrets.adminPassword # "")]]

\* api/health.js:1-55  handler: the JSON it sends, without the timestamp
healthHandler(secrets, sur) ==
    LET hasConfig == sur.redis = "config"
        url == IF hasConfig THEN sur.flaresolverrUrl ELSE ""
        redisStatus ==
            CASE sur.redis = "unset" -> <<"not configured">>
              [] sur.redis = "config" -> <<"connected">>
              [] sur.redis = "empty" -> <<"connected (no config)">>
              [] OTHER -> <<"error: ", "fetch failed">>
        flaresolverrStatus ==
            IF url = "" THEN <<"not configured">>
            ELSE CASE sur.flare = "ok" -> <<"connected">>
                   [] sur.flare = "error" -> <<"error">>
                   [] sur.flare = "badurl" ->
                        <<"unreachable: ", "Failed to parse URL from ", url, "/v1">>
                   [] OTHER -> <<"unreachable: ", "The operation was aborted due to timeout">>
    IN [status |-> <<"ok">>,
        redis |-> redisStatus,
        flaresolverr |-> flaresolverrStatus,
        configured |->
            [appointyEmail |-> Bool(hasConfig /\ secrets.appointyEmail # ""),
             appointyPassword |-> Bool(hasConfig /\ secrets.appointyPassword # ""),
             flaresolverrUrl |-> Bool(url # ""),
             calendarToken |-> Bool(hasConfig /\ secrets.calendarToken # ""),
             adminPassword |-> Bool(secrets.adminPassword # "")]]

\* scraper.js:558-565  app.get('/health'): the JSON it sends. The fields
\* health.js has and this handler lacks are left empty.
serverHealth(secrets, sur) ==
    [status |-> <<"ok">>,
     redis |-> <<>>,
     flaresolverr |-> <<"puppeteer">>,
     configured |-> [appointyEmail |-> Bool(secrets.appointyEmail # ""),
                     appointyPassword |-> <<>>,
                     flaresolverrUrl |-> <<>>,
                     calendarToken |-> <<>>,
                     adminPassword |-> <<>>]]

NoHealth ==
    [status |-> <<>>, redis |-> <<>>, flaresolverr |-> <<>>,
     configured |-> [appointyEmail |-> <<>>, appointyPassword |-> <<>>,
                     flaresolverrUrl |-> <<>>, calendarToken |-> <<>>,
                     adminPassword |-> <<>>]]

\* two deployments a and b of the same handler in the same surroundings
InitHealth ==
    /\ HandlerAtRest
    /\ calc \in [fn : {"healthHandler", "serverHealth"},
                 a : SecretSets, b : SecretSets, sur : Surroundings,
                 done : {FALSE}, resA : {NoHealth}, resB : {NoHealth}]

HealthVercel ==
    /\ calc.fn = "healthHandler" /\ ~calc.done
    /\ calc' = [calc EXCEPT !.done = TRUE,
                            !.resA = healthHandler(calc.a, calc.sur),
                            !.resB = healthHandler(calc.b, calc.sur)]
    /\ UNCHANGED handlerVars

HealthServer ==
    /\ calc.fn = "serverHealth" /\ ~calc.done
    /\ calc' = [calc EXCEPT !.done = TRUE,
                            !.resA = serverHealth(calc.a, calc.sur),
                            !.resB = serverHealth(calc.b, calc.sur)]
    /\ UNCHANGED handlerVars

NextHealth == HealthVercel \/ HealthServer

SpecHealth == InitHealth /\ [][NextHealth]_vars

\* the texts a health response is made of
HealthTexts(res) ==
    {res.status, res.redis, res.flaresolverr}
    \cup {res.configured[f] : f \in DOMAIN res.configured}

\* C18: two configurations with the same secret fields present, whatever
\* the values of the e-mail, password, token and admin password, get the
\* same health response in the same surroundings, and no text of a response
\* contains the value of a secret.
C18_HealthBooleansOnly ==
    calc.done
        => /\ (\A f \in DOMAIN calc.a : (calc.a[f] = "") <=> (calc.b[f] = ""))
                 => calc.resA = calc.resB
           /\ \A t \in HealthTexts(calc.resA), i \in 1..4, f \in DOMAIN calc.a :
                 (i \in DOMAIN t /\ calc.a[f] # "") => t[i] # calc.a[f]
           /\ \A f \in DOMAIN calc.resA.configured :
                 calc.resA.configured[f] \in {<<>>, <<"true">>, <<"false">>}

\* C18 witness: every secret is set and different in the two configurations,
\* the stored configuration is read and FlareSolverr answers, and the two
\* responses are the same
C18_Witness ==
    /\ calc.done /\ calc.fn = "healthHandler"
    /\ \A f \in DOMAIN calc.a : calc.a[f] # "" /\ calc.b[f] # "" /\ calc.a[f] # calc.b[f]
    /\ calc.sur.redis = "config" /\ calc.sur.flaresolverrUrl # "" /\ calc.sur.flare = "ok"
    /\ calc.resA = calc.resB
    /\ calc.resA.configured.appointyEmail = <<"true">>

(* ------------------------ cache frame and races ----------------------- *)

\* C19: the cached document and its timestamp change only in the step that
\* completes a generation and sends it marked MISS; every other step (a
\* rejected token, a not-configured response, a HIT, a failure answered
\* STALE or 500, a suspended or abandoned scrape, a configuration change)
\* leaves both as they were.
C19_CacheWrittenOnlyOnSuccess ==
    [][/\ (cachedICS' # cachedICS \/ cacheTime' # cacheTime)
             => /\ out'.kind = "response"
                /\ out'.xcache = "MISS"
                /\ out'.status = 200
                /\ ~out'.threw
                /\ cachedICS' = out'.body
                /\ cacheTime' = out'.at
       /\ (out'.kind = "response" /\ out'.xcache # "MISS")
             => (cachedICS' = cachedICS /\ cacheTime' = cacheTime)]_vars

\* C19 witness: a forced refresh has failed and was answered STALE while
\* the cache keeps the document and timestamp it had
C19_Witness ==
    /\ out.kind = "response" /\ out.threw /\ out.xcache = "STALE"
    /\ out.phase = "completion"
    /\ HadDoc /\ out.before.time > 0
    /\ CacheUntouched

\* C20: cache misses are neither coalesced nor mutually excluded. A request
\* with the configured token that finds the cache empty or stale starts a
\* scrape with a fetch of its own, whether or not another request is already
\* scraping, so every request in flight has issued its own fetch; and when
\* a generation completes, its document becomes the cached one, also over a
\* document that a request which arrived later has stored in the meantime:
\* the last writer wins.
C20_NoCoalescingLastWriterWins ==
    /\ (out.phase = "arrival" /\ out.valid /\ ScrapeConfigured
          /\ (~HadDoc \/ Age >= 15 * 60 * 1000))
          => (out.kind = "await" /\ out.calls = 1 /\ out.miss \in {"empty", "stale"})
    /\ \A r \in Reqs : pc[r] # "idle" => (req[r].calls >= 1 /\ req[r].miss # "none")
    /\ (out.kind = "response" /\ out.xcache = "MISS")
          => (cachedICS = out.body /\ cacheTime = out.at)

\* C20 witness: a request that found the cache empty completes after a
\* request that arrived later has already stored another document, and its
\* own document is the one cached
C20_Witness ==
    /\ out.kind = "response" /\ out.xcache = "MISS" /\ out.miss = "empty"
    /\ HadDoc
    /\ out.before.time > out.at
    /\ out.before.doc # out.body
    /\ cachedICS = out.body

\* C25 (as stated): the stored generation timestamp never moves backwards;
\* every cache write stores a timestamp greater than or equal to the one
\* stored before it.
C25_AsStated == [][cacheTime' >= cacheTime]_vars

\* C26: the cached document and its timestamp are consistent in every
\* state, and in what every request has observed of them: there is no
\* document exactly when the timestamp is 0, and the timestamp is never
\* later than the current time.
C26_CacheConsistent ==
    /\ (cachedICS = NoDoc) <=> (cacheTime = 0)
    /\ cacheTime <= now
    /\ out.kind # "none" =>
          /\ (out.before.doc = NoDoc) <=> (out.before.time = 0)
          /\ out.before.time <= now

\* C26 witness: a request is answered from a cache that a scrape filled at
\* an earlier time
C26_Witness ==
    /\ out.kind = "response" /\ out.xcache = "HIT"
    /\ cachedICS # NoDoc /\ cacheTime > 0 /\ cacheTime < now
    /\ out.before.doc = cachedICS /\ out.before.time = cacheTime

(***************************************************************************)
(* Extraction strategies.  A page is seen through what each strategy finds *)
(* in it: one list of candidates per strategy, in the order the code tries *)
(* them.  A candidate records whether a date was matched ("none"), matched *)
(* but not parseable ("bad") or parseable ("good"), and whether a time was *)
(* matched.  The serverless extractor has the card patterns followed by    *)
(* the whole-document scan; the Browserless extractor has the card         *)
(* selectors, then table rows, then list items.                            *)
(***************************************************************************)
MaxCands == 2

CardPatterns == 2

DateKinds == {"none", "bad", "good"}

\* A candidate with neither match is found by no strategy; one with an
\* unparseable date and no time is treated everywhere as one with a
\* parseable date and no time, and is left out.
Candidates ==
  { c \in [date : DateKinds, time : BOOLEAN] : c.time \/ c.date = "good" }

CandidateLists == UNION { [1..n -> Candidates] : n \in 0..MaxCands }

Strategies(fn) == IF fn = "extractAppointmentsFromHTML" THEN 1..(CardPatterns + 1)
                  ELSE 1..(CardPatterns + 2)

Pages(fn) == [Strategies(fn) -> CandidateLists]

\* The record one candidate becomes: where it came from and whether its
\* start and end were resolved to dates.
Record(s, i, c) == [from |-> s, idx |-> i, resolved |-> (c.date = "good" /\ c.time)]

RECURSIVE Collect(_, _, _, _)
Collect(fn, s, cands, i) ==
  IF i > Len(cands) THEN <<>>
  ELSE LET c == cands[i]
           pushed ==
             IF fn = "extractAppointmentsFromHTML"
             THEN \* if (dateStr && tm) { appointment = parseAppointment(...); if (appointment) push }
                  c.date = "good" /\ c.time
             ELSE IF s <= CardPatterns
             THEN \* Strategy 1: if (dateMatch || timeMatch) push
                  c.date # "none" \/ c.time
             ELSE IF s = CardPatterns + 1
             THEN \* Strategy 2: if (dateMatch && timeMatch) push
                  c.date # "none" /\ c.time
             ELSE \* Strategy 3: if (dateMatch) push
                  c.date # "none"
       IN (IF pushed THEN <<Record(s, i, c)>> ELSE <<>>) \o Collect(fn, s, cands, i + 1)

\* One strategy of the chain: it runs only while nothing has been collected
\* (the break after a card pattern, the length === 0 guards of the
\* fallbacks).
TryAlways(fn, acc, s, page) == acc \o Collect(fn, s, page[s], 1)

TryStrategy(fn, acc, s, page) ==
  IF Len(acc) > 0 THEN acc ELSE acc \o Collect(fn, s, page[s], 1)

RECURSIVE RunStrategies(_, _, _, _)
RunStrategies(fn, acc, s, page) ==
  IF s \notin DOMAIN page THEN acc
  ELSE RunStrategies(fn, TryStrategy(fn, acc, s, page), s + 1, page)

extractAppointmentsFromPage(page) ==
  RunStrategies("extractAppointmentsFromHTML", <<>>, 1, page)

\* The Browserless extractor maps parseAppointment over every raw result and
\* returns all of them.
extractAppointments(page) == RunStrategies("extractAppointments", <<>>, 1, page)

Extractors == {"extractAppointmentsFromHTML", "extractAppointments"}

InitExtract ==
  /\ HandlerAtRest
  /\ calc \in UNION { [fn : {fn}, page : Pages(fn), done : {FALSE}, result : {<<>>}]
                      : fn \in Extractors }

ExtractVercel ==
  /\ calc.fn = "extractAppointmentsFromHTML" /\ ~calc.done
  /\ calc' = [calc EXCEPT !.done = TRUE,
                          !.result = extractAppointmentsFromPage(calc.page)]
  /\ UNCHANGED handlerVars

ExtractBrowserless ==
  /\ calc.fn = "extractAppointments" /\ ~calc.done
  /\ calc' = [calc EXCEPT !.done = TRUE, !.result = extractAppointments(calc.page)]
  /\ UNCHANGED handlerVars

NextExtract == ExtractVercel \/ ExtractBrowserless

SpecExtract == InitExtract /\ [][NextExtract]_vars

(***************************************************************************)
(* Claims about the extraction strategies.                                 *)
(***************************************************************************)
\* What a strategy finds on its own in a page.
Yield(fn, s, page) == Collect(fn, s, page[s], 1)

\* C21: the strategies are tried in priority order and never merged: the
\* returned list is exactly what the first strategy that yields something
\* finds on its own (so a fallback contributes only when every strategy
\* before it yielded nothing), and it is empty when no strategy yields.
C21_FirstYieldingStrategyOnly ==
  (calc.fn \in Extractors /\ calc.done) =>
     /\ \A i, j \in DOMAIN calc.result : calc.result[i].from = calc.result[j].from
     /\ \A i \in DOMAIN calc.result :
          /\ \A s \in Strategies(calc.fn) :
               s < calc.result[i].from => Yield(calc.fn, s, calc.page) = <<>>
          /\ calc.result = Yield(calc.fn, calc.result[i].from, calc.page)
     /\ calc.result = <<>> =>
          \A s \in Strategies(calc.fn) : Yield(calc.fn, s, calc.page) = <<>>

\* Witness: a page where the first card pattern yields nothing, the second
\* yields two records and the fallback would have yielded too.
C21_Witness ==
  /\ calc.fn \in Extractors /\ calc.done
  /\ Yield(calc.fn, 1, calc.page) = <<>>
  /\ Len(calc.page[1]) > 0
  /\ Len(Yield(calc.fn, 2, calc.page)) = 2
  /\ Yield(calc.fn, CardPatterns + 1, calc.page) # <<>>
  /\ Len(calc.result) = 2

ServerItems == {"compact", "date", "time", "text"}

BodyTexts == UNION { [1..n -> ServerItems] : n \in 0..MaxItems }

\* while ((match = appointyPattern.exec(bodyText)) !== null) results.push(...)
RECURSIVE AppointyMatches(_, _)
AppointyMatches(text, i) ==
  IF i > Len(text) THEN <<>>
  ELSE (IF text[i] = "compact" THEN <<[by |-> "appointyPattern", pos |-> i]>> ELSE <<>>)
       \o AppointyMatches(text, i + 1)

\* while ((dateMatch = datePattern.exec(bodyText)) !== null)
\*   { timeMatch = timePattern.exec(nearbyText); if (timeMatch) results.push(...) }
RECURSIVE GenericMatches(_, _)
GenericMatches(text, i) ==
  IF i > Len(text) THEN <<>>
  ELSE LET dateMatch == text[i] \in {"compact", "date"}
           timeMatch == \E j \in i..Len(text) : text[j] \in {"compact", "time"} /\ (j = i => text[i] = "compact")
       IN (IF dateMatch /\ timeMatch THEN <<[by |-> "datePattern", pos |-> i]>> ELSE <<>>)
          \o GenericMatches(text, i + 1)

\* as serverExtractAppointments, with the generic scan always run
serverExtractBoth(text) == AppointyMatches(text, 1) \o GenericMatches(text, 1)

serverExtractAppointments(text) ==
  LET results == AppointyMatches(text, 1)
  IN IF Len(results) = 0 THEN results \o GenericMatches(text, 1) ELSE results

InitServerExtract ==
  /\ HandlerAtRest
  /\ calc \in [fn : {"serverExtractAppointments"}, text : BodyTexts,
               done : {FALSE}, result : {<<>>}]

ServerExtract ==
  /\ calc.fn = "serverExtractAppointments" /\ ~calc.done
  /\ calc' = [calc EXCEPT !.done = TRUE, !.result = serverExtractAppointments(calc.text)]
  /\ UNCHANGED handlerVars

NextServerExtract == ServerExtract

SpecServerExtract == InitServerExtract /\ [][NextServerExtract]_vars

\* C24: in the server's extractor the compact pattern supersedes the generic
\* scan: when the compact layout occurs in the text the result is exactly
\* its occurrences, in order; the generic scan contributes only when the
\* compact layout occurs nowhere; no result holds records of both.
C24_CompactSupersedesGeneric ==
  (calc.fn = "serverExtractAppointments" /\ calc.done) =>
    LET compactAt == { i \in DOMAIN calc.text : calc.text[i] = "compact" }
    IN /\ \A i, j \in DOMAIN calc.result : calc.result[i].by = calc.result[j].by
       /\ (\E i \in DOMAIN calc.result : calc.result[i].by = "datePattern")
            => compactAt = {}
       /\ compactAt # {} =>
            /\ Len(calc.result) = Cardinality(compactAt)
            /\ \A i \in DOMAIN calc.result :
                 /\ calc.result[i].by = "appointyPattern"
                 /\ calc.result[i].pos \in compactAt
                 /\ \A j \in DOMAIN calc.result : i < j => calc.result[i].pos < calc.result[j].pos

\* C24 witness: a text with one compact entry followed by a date and a time
\* the generic scan would match: only the compact entry is returned
C24_Witness ==
  /\ calc.fn = "serverExtractAppointments" /\ calc.done
  /\ calc.text = <<"compact", "date", "time">>
  /\ calc.result = <<[by |-> "appointyPattern", pos |-> 1]>>

\* the generic scan at work: a text without the compact layout
C24_GenericWitness ==
  /\ calc.fn = "serverExtractAppointments" /\ calc.done
  /\ calc.text = <<"date", "time">>
  /\ calc.result = <<[by |-> "datePattern", pos |-> 1]>>

(***************************************************************************)
(* The admin panels.  Both keep their sessions in a Map from token to the  *)
(* time of creation.  The server keeps the admin password in the persisted *)
(* configuration; the serverless handler reads it from the environment and *)
(* persists the rest.  "" stands for a missing or empty (falsy) value.     *)
(***************************************************************************)
MaxSessions == 2

MaxAdminTicks == 2

MaxData == 2

SESSION_TTL == 86400000

AdminTickStep == SESSION_TTL \div 2 + 1

SessionTokens == 1..MaxSessions

NoCookie == 0

\* a token a client made up: createSession's random tokens never equal it
Forged == MaxSessions + 1

\* what a request may present: nothing, a token it was given, or a made-up one
Cookies(issued) == issued \cup {NoCookie, Forged}

Passwords == {"", "p", "q"}

FormData == 1..MaxData

AdminActions == {"setup", "login", "logout", "save", "other"}

NoAdminRequest ==
  [method |-> "none", action |-> "other", cookie |-> NoCookie, isLoggedIn |-> FALSE,
   hadPassword |-> FALSE, wasLoggedOut |-> FALSE, saved |-> FALSE]

\* validateSession(token): is the session known and not older than a day
validateSession(sessions, token, clock) ==
  /\ token \in DOMAIN sessions
  /\ sessions[token] # 0
  /\ ~(clock - sessions[token] > SESSION_TTL)

\* the Map after validateSession(token): an expired session is deleted
AfterValidate(sessions, token, clock) ==
  IF token \in DOMAIN sessions /\ sessions[token] # 0
     /\ clock - sessions[token] > SESSION_TTL
  THEN [sessions EXCEPT ![token] = 0]
  ELSE sessions

\* const isLoggedIn = cookies.session && validateSession(cookies.session)
IsLoggedIn(sessions, cookie, clock) ==
  cookie # NoCookie /\ validateSession(sessions, cookie, clock)

\* crypto.randomBytes(32).toString('hex'): a token no session was given
\* before, while the model has one left
randomToken(issued) ==
  IF issued = SessionTokens THEN NoCookie
  ELSE CHOOSE t \in SessionTokens \ issued : \A u \in SessionTokens \ issued : t <= u

\* createSession() of the server: sessions.set(token, Date.now())
createSession(sessions, token, clock) == [sessions EXCEPT ![token] = clock]

\* createSession() of the serverless handler, which also drops old sessions
vercelCreateSession(sessions, token, clock) ==
  [t \in SessionTokens |->
     IF t = token THEN clock
     ELSE IF sessions[t] # 0 /\ clock - sessions[t] > SESSION_TTL THEN 0
     ELSE sessions[t]]

InitAdmin ==
  /\ HandlerAtRest
  /\ \E impl \in {"server", "vercel"}, pw \in {"", "p"}, d \in 0..MaxData :
       /\ (impl = "server" /\ pw = "") => d = 0
       /\ calc = [fn |-> "admin", impl |-> impl, adminPassword |-> pw, data |-> d,
                  sessions |-> [t \in SessionTokens |-> 0], issued |-> {},
                  loggedOut |-> {}, clock |-> StartTime, ticks |-> 0,
                  last |-> NoAdminRequest]

AdminTick ==
  /\ calc.fn = "admin"
  /\ calc.ticks < MaxAdminTicks
  /\ calc' = [calc EXCEPT !.clock = @ + AdminTickStep, !.ticks = @ + 1,
                          !.last = NoAdminRequest]
  /\ UNCHANGED handlerVars

\* what a request leaves behind for the claims: what it carried, what the
\* handler made of it, and whether it wrote the configuration
AdminRequest(method, action, cookie, isLoggedIn, saved) ==
  [method |-> method, action |-> action, cookie |-> cookie, isLoggedIn |-> isLoggedIn,
   hadPassword |-> (calc.adminPassword # ""),
   wasLoggedOut |-> (cookie \in calc.loggedOut), saved |-> saved]

\* app.get('/admin')
ServerAdminGet ==
  /\ calc.fn = "admin" /\ calc.impl = "server"
  /\ \E cookie \in Cookies(calc.issued) :
       calc' = [calc EXCEPT
                  !.sessions = AfterValidate(calc.sessions, cookie, calc.clock),
                  !.last = AdminRequest("GET", "other", cookie,
                             IsLoggedIn(calc.sessions, cookie, calc.clock), FALSE)]
  /\ UNCHANGED handlerVars

\* app.post('/admin')
ServerAdminPost ==
  /\ calc.fn = "admin" /\ calc.impl = "server"
  /\ \E action \in AdminActions, cookie \in Cookies(calc.issued),
        pw \in Passwords, d \in FormData :
       LET isLoggedIn == IsLoggedIn(calc.sessions, cookie, calc.clock)
           validated == AfterValidate(calc.sessions, cookie, calc.clock)
           fresh == randomToken(calc.issued)
           creates == action = "setup" \/ (action = "login" /\ pw = calc.adminPassword)
       IN /\ creates => fresh # NoCookie
          /\ IF action = "setup"
             THEN calc' = [calc EXCEPT
                             !.adminPassword = pw, !.data = d,
                             !.sessions = createSession(validated, fresh, calc.clock),
                             !.issued = @ \cup {fresh},
                             !.last = AdminRequest("POST", action, cookie, isLoggedIn, TRUE)]
             ELSE IF action = "login" /\ pw = calc.adminPassword
             THEN calc' = [calc EXCEPT
                             !.sessions = createSession(validated, fresh, calc.clock),
                             !.issued = @ \cup {fresh},
                             !.last = AdminRequest("POST", action, cookie, isLoggedIn, FALSE)]
             ELSE IF action = "save" /\ isLoggedIn
             THEN calc' = [calc EXCEPT
                             !.data = d,
                             !.adminPassword = IF pw # "" THEN pw ELSE @,
                             !.sessions = validated,
                             !.last = AdminRequest("POST", action, cookie, isLoggedIn, TRUE)]
             ELSE calc' = [calc EXCEPT
                             !.sessions = validated,
                             !.loggedOut = IF action = "logout" /\ cookie # NoCookie
                                           THEN @ \cup {cookie} ELSE @,
                             !.last = AdminRequest("POST", action, cookie, isLoggedIn, FALSE)]
  /\ UNCHANGED handlerVars

\* the serverless admin handler, GET and POST
VercelAdminHandler ==
  /\ calc.fn = "admin" /\ calc.impl = "vercel"
  /\ \E method \in {"GET", "POST"}, action \in AdminActions,
        cookie \in Cookies(calc.issued),
        pw \in Passwords, d \in FormData :
       LET isLoggedIn == IsLoggedIn(calc.sessions, cookie, calc.clock)
           validated == AfterValidate(calc.sessions, cookie, calc.clock)
           fresh == randomToken(calc.issued)
           creates == calc.adminPassword # "" /\ action = "login" /\ pw = calc.adminPassword
       IN /\ creates => fresh # NoCookie
          /\ method = "GET" => action = "other"
          /\ IF calc.adminPassword = ""
             THEN \* if (!ADMIN_PASSWORD) return res.send(needsSetupPage(...))
                  calc' = [calc EXCEPT
                             !.loggedOut = IF action = "logout" /\ cookie # NoCookie
                                           THEN @ \cup {cookie} ELSE @,
                             !.last = AdminRequest(method, action, cookie, FALSE, FALSE)]
             ELSE IF action = "login" /\ pw = calc.adminPassword
             THEN calc' = [calc EXCEPT
                             !.sessions = vercelCreateSession(validated, fresh, calc.clock),
                             !.issued = @ \cup {fresh},
                             !.last = AdminRequest(method, action, cookie, isLoggedIn, FALSE)]
             ELSE IF action = "logout"
             THEN calc' = [calc EXCEPT
                             !.sessions = IF cookie \in DOMAIN validated
                                          THEN [validated EXCEPT ![cookie] = 0]
                                          ELSE validated,
                             !.loggedOut = IF cookie # NoCookie THEN @ \cup {cookie} ELSE @,
                             !.last = AdminRequest(method, action, cookie, isLoggedIn, FALSE)]
             ELSE IF action = "save" /\ isLoggedIn
             THEN calc' = [calc EXCEPT
                             !.data = d,
                             !.sessions = validated,
                             !.last = AdminRequest(method, action, cookie, isLoggedIn, TRUE)]
             ELSE calc' = [calc EXCEPT
                             !.sessions = validated,
                             !.last = AdminRequest(method, action, cookie, isLoggedIn, FALSE)]
  /\ UNCHANGED handlerVars

NextAdmin == AdminTick \/ ServerAdminGet \/ ServerAdminPost \/ VercelAdminHandler

SpecAdmin == InitAdmin /\ [][NextAdmin]_vars

\* C27 (as stated): an admin request writes the persisted configuration
\* only when it carries a valid, unexpired session, or when it is the
\* initial setup made while no admin password is configured.
C27_AsStated ==
  (calc.fn = "admin" /\ calc.last.saved)
     => \/ calc.last.isLoggedIn
        \/ (calc.last.action = "setup" /\ ~calc.last.hadPassword)

\* C28 (as stated): a request presenting a session token that an earlier
\* logout request carried is treated as not logged in.
C28_AsStated ==
  (calc.fn = "admin" /\ calc.last.method # "none" /\ calc.last.wasLoggedOut)
     => ~calc.last.isLoggedIn

(***************************************************************************)
(* The browser of one scrape.  scrapeAppointments of the Browserless       *)
(* variant connects to a remote browser, the server's launches a browser   *)
(* process; both open a page, work inside try, and release in finally.     *)
(* Every awaited call may reject.                                          *)
(***************************************************************************)
MaxFound == 2

NoScrape ==
  [needsLogin |-> FALSE, browser |-> "none", page |-> "none", failedAt |-> "none",
   outcome |-> "pending", found |-> 0]

InitBrowser ==
  /\ HandlerAtRest
  /\ \E impl \in {"browserless", "server"}, debug \in BOOLEAN :
       /\ impl = "server" => ~debug
       /\ calc = [fn |-> "scrapeAppointments", impl |-> impl, debug |-> debug,
                  at |-> "start"] @@ NoScrape

\* where a rejection inside try leads: the Browserless variant has a catch,
\* the server's try has only finally
Caught(impl) == IF impl = "browserless" THEN "catch" ELSE "finally"

\* const browser = await puppeteer.connect(...) / puppeteerExtra.launch(...)
ScrapeConnect ==
  /\ calc.fn = "scrapeAppointments" /\ calc.at = "start"
  /\ \/ calc' = [calc EXCEPT !.at = "connected", !.browser = "open"]
     \/ calc' = [calc EXCEPT !.at = "done", !.failedAt = "connect", !.outcome = "threw"]
  /\ UNCHANGED handlerVars

\* const page = await browser.newPage(); await page.setUserAgent(...);
\* await page.setViewport(...): all before the try
ScrapeNewPage ==
  /\ calc.fn = "scrapeAppointments" /\ calc.at = "connected"
  /\ \/ calc' = [calc EXCEPT !.at = "try", !.page = "open"]
     \/ \* browser.newPage() rejects
        calc' = [calc EXCEPT !.at = "done", !.failedAt = "newPage", !.outcome = "threw"]
     \/ \* page.setUserAgent or page.setViewport rejects
        calc' = [calc EXCEPT !.at = "done", !.page = "open", !.failedAt = "setUserAgent",
                             !.outcome = "threw"]
  /\ UNCHANGED handlerVars

\* try { await page.goto(...); ... needsLogin / currentUrl
ScrapeGoto ==
  /\ calc.fn = "scrapeAppointments" /\ calc.at = "try"
  /\ \/ \E needsLogin \in BOOLEAN :
          calc' = [calc EXCEPT !.needsLogin = needsLogin,
                               !.at = IF needsLogin THEN "login" ELSE "ready"]
     \/ calc' = [calc EXCEPT !.failedAt = "goto", !.at = Caught(calc.impl)]
  /\ UNCHANGED handlerVars

\* await performLogin(page, ...)
ScrapeLogin ==
  /\ calc.fn = "scrapeAppointments" /\ calc.at = "login"
  /\ \/ calc' = [calc EXCEPT !.at = "ready"]
     \/ calc' = [calc EXCEPT !.failedAt = "login", !.at = Caught(calc.impl)]
  /\ UNCHANGED handlerVars

\* Browserless: waitForNetworkIdle (its rejection is swallowed), the sleep
\* and, under debug, page.screenshot; server: the scroll loop and the scroll
\* back to the top, whose page.evaluate calls may reject
ScrapeWait ==
  /\ calc.fn = "scrapeAppointments" /\ calc.at = "ready"
  /\ \/ calc' = [calc EXCEPT !.at = "loaded"]
     \/ /\ calc.impl = "server" \/ calc.debug
        /\ calc' = [calc EXCEPT !.failedAt = "wait", !.at = Caught(calc.impl)]
  /\ UNCHANGED handlerVars

\* const appointments = await extractAppointments(page); return appointments;
ScrapeExtract ==
  /\ calc.fn = "scrapeAppointments" /\ calc.at = "loaded"
  /\ \/ \E n \in 0..MaxFound : calc' = [calc EXCEPT !.found = n, !.at = "finally"]
     \/ calc' = [calc EXCEPT !.failedAt = "extract", !.at = Caught(calc.impl)]
  /\ UNCHANGED handlerVars

\* catch (error) { ...; if (debug) await page.content().catch(...); throw error; }
ScrapeCatch ==
  /\ calc.fn = "scrapeAppointments" /\ calc.at = "catch"
  /\ calc' = [calc EXCEPT !.at = "finally"]
  /\ UNCHANGED handlerVars

\* finally { await page.close(); await browser.disconnect(); }  (Browserless)
\* finally { await browser.close(); }                           (server)
ScrapeFinally ==
  /\ calc.fn = "scrapeAppointments" /\ calc.at = "finally"
  /\ LET outcome == IF calc.failedAt # "none" THEN "threw" ELSE "returned"
     IN IF calc.impl = "browserless"
        THEN \/ calc' = [calc EXCEPT !.page = "closed", !.browser = "closed",
                                     !.outcome = outcome, !.at = "done"]
             \/ \* page.close() rejects: browser.disconnect() is not reached
                calc' = [calc EXCEPT !.failedAt = "close", !.outcome = "threw", !.at = "done"]
        ELSE calc' = [calc EXCEPT !.page = "closed", !.browser = "closed",
                                  !.outcome = outcome, !.at = "done"]
  /\ UNCHANGED handlerVars

NextBrowser ==
  \/ ScrapeConnect \/ ScrapeNewPage \/ ScrapeGoto
  \/ ScrapeLogin \/ ScrapeWait \/ ScrapeExtract \/ ScrapeCatch \/ ScrapeFinally

SpecBrowser == InitBrowser /\ [][NextBrowser]_vars

\* C29 (as stated): when the scrape call has returned or thrown, the browser
\* it opened is closed or disconnected.
C29_AsStated ==
  (calc.fn = "scrapeAppointments" /\ calc.outcome # "pending") => calc.browser # "open"

(***************************************************************************)
(* The lazy-load scroll loop of the server's scrapeAppointments.  Each     *)
(* iteration scrolls, waits and counts the appointment dates in the page;  *)
(* the page may show any count.  recent holds the counts the loop compared *)
(* last, oldest first, starting with the initial previousCount.            *)
(***************************************************************************)
MaxCount == 2

maxScrollAttempts == 50

MaxNoChange == 5

\* as nextNoChangeCount, without the reset
nextNoChangeCountSticky(currentCount, previousCount, noChangeCount) ==
  IF currentCount = previousCount THEN noChangeCount + 1 ELSE noChangeCount

\* if (currentCount === previousCount) noChangeCount++; else noChangeCount = 0;
nextNoChangeCount(currentCount, previousCount, noChangeCount) ==
  IF currentCount = previousCount THEN noChangeCount + 1 ELSE 0

\* while (scrollAttempts < maxScrollAttempts && noChangeCount < 5)
loopCondition(scrollAttempts, noChangeCount) ==
  scrollAttempts < maxScrollAttempts /\ noChangeCount < MaxNoChange

\* the last MaxNoChange + 1 counts
Remember(recent, currentCount) ==
  LET all == Append(recent, currentCount)
  IN IF Len(all) > MaxNoChange + 1 THEN Tail(all) ELSE all

InitScroll ==
  /\ HandlerAtRest
  /\ calc = [fn |-> "scroll", at |-> "loop", previousCount |-> 0, noChangeCount |-> 0,
             scrollAttempts |-> 0, recent |-> <<0>>]

ScrollIteration ==
  /\ calc.fn = "scroll" /\ calc.at = "loop"
  /\ loopCondition(calc.scrollAttempts, calc.noChangeCount)
  /\ \E currentCount \in 0..MaxCount :
       calc' = [calc EXCEPT
                  !.noChangeCount =
                     nextNoChangeCount(currentCount, calc.previousCount, @),
                  !.previousCount = currentCount,
                  !.scrollAttempts = @ + 1,
                  !.recent = Remember(@, currentCount)]
  /\ UNCHANGED handlerVars

\* one of the awaited page calls of an iteration rejects
ScrollReject ==
  /\ calc.fn = "scroll" /\ calc.at = "loop"
  /\ loopCondition(calc.scrollAttempts, calc.noChangeCount)
  /\ calc' = [calc EXCEPT !.at = "threw"]
  /\ UNCHANGED handlerVars

ScrollExit ==
  /\ calc.fn = "scroll" /\ calc.at = "loop"
  /\ ~loopCondition(calc.scrollAttempts, calc.noChangeCount)
  /\ calc' = [calc EXCEPT !.at = "done"]
  /\ UNCHANGED handlerVars

NextScroll == ScrollIteration \/ ScrollReject \/ ScrollExit

\* every awaited call of an iteration settles, so the loop keeps stepping
SpecScroll == InitScroll /\ [][NextScroll]_vars /\ WF_vars(NextScroll)

\* the last five counts each equalled the count before
UnchangedFive ==
  /\ Len(calc.recent) = 6
  /\ \A i \in 2..6 : calc.recent[i] = calc.recent[i - 1]

\* C30: the scroll loop always ends; it never runs more than 50 iterations,
\* whatever counts it observes; it runs no iteration once the count has been
\* unchanged for 5 iterations in a row, and ends normally only then or after
\* the 50th iteration; after an iteration that saw the count change the
\* no-change counter is 0.
C30_ScrollLoopTerminates ==
  /\ [](calc.fn = "scroll" =>
          /\ calc.scrollAttempts <= 50
          /\ calc.at = "done" => (calc.scrollAttempts = 50 \/ UnchangedFive)
          /\ UnchangedFive <=> calc.noChangeCount = 5
          /\ (Len(calc.recent) >= 2
                /\ calc.recent[Len(calc.recent)] # calc.recent[Len(calc.recent) - 1])
               => calc.noChangeCount = 0)
  /\ [][(calc.fn = "scroll" /\ calc'.scrollAttempts # calc.scrollAttempts)
          => (~UnchangedFive /\ calc.scrollAttempts < 50
                /\ calc'.scrollAttempts = calc.scrollAttempts + 1)]_vars
  /\ <>(calc.fn = "scroll" /\ calc.at # "loop")

\* C30 witness: the count kept changing often enough for the loop to run
\* all 50 iterations
C30_Witness ==
  /\ calc.fn = "scroll" /\ calc.at = "done"
  /\ calc.scrollAttempts = 50 /\ calc.noChangeCount < 5

====
